---- MODULE Spec2Model ----
(***************************************************************************)
(* NetBox network scanner: scanner.py (the per-host scan_ip with its probe, *)
(* inventory lookup and update or create; the range scan scan_prefix with  *)
(* its rolling window over a thread pool; fetch_enabled_prefixes and       *)
(* run_auto_scan) and api.py (the two POST endpoints and their executor).  *)
(*                                                                         *)
(* The scan_ip calls are numbered in the order their hosts are generated;  *)
(* target gives the address of each.  When a range is given by its number  *)
(* of hosts, host h has address h, as net.hosts() yields them in ascending *)
(* order.  The inventory holds, per address, the list of records stored    *)
(* for it (under any mask), in the order the store returns them.  Time is  *)
(* counted in seconds since the entry point was called.                    *)
(***************************************************************************)
EXTENDS Integers, Sequences, FiniteSets, TLC

\* ---------------------------------------------------------------- bounds
MaxHosts == 3        \* a range has 1..MaxHosts usable hosts
MaxWorkers == 2      \* MAX_CONCURRENT_IP_SCANS ranges over 1..MaxWorkers
MaxTicks == 1        \* how many times the wall clock advances
MaxRanges == 2       \* auto mode discovers up to MaxRanges prefixes
MaxPieces == 2       \* a posted string has up to MaxPieces pieces

\* ------------------------------------------------------ program constants
SCAN_TIMEOUT == 3600
MAX_WORKERS == 3
SCANNER_API_KEY == "your-scanner-api-key"
FullMask == 32
OtherMask == FullMask - 8   \* some mask other than the full one

TickSeconds == SCAN_TIMEOUT + 1
Before == 0 - 1      \* a timestamp written by an earlier scan

Hosts == 1..MaxHosts

None == "None"
Absent == "Absent"   \* a key that a dict does not hold

VARIABLES
    MAX_IP_WORKERS,  \* _MAX_IP_WORKERS, from the configuration
    nhosts,          \* number of the last usable host of the range
    pc,              \* where the entry point is: fill, loop, join, done; ip
    it,              \* the generator `it`: the next host it yields
    futures,         \* the dict `futures` (its keys, named by host)
    task,            \* per host: the scan_ip call and its locals
    net,             \* per address: what the network answers to the probes
    inv,             \* per address: the inventory records of the address
    calls,           \* per host: the inventory writes issued so far
    clock,           \* wall clock, seconds
    dispatched,      \* the hosts submitted to the pool, in submission order
    inv0,            \* the inventory as it was when the entry point was called
    target,          \* per host: its address (the ip_str scan_ip is called with)
    prefix,          \* the argument prefix_str of scan_prefix
    auto,            \* run_auto_scan: the discovered prefixes and the loop index
    fetch,           \* fetch_enabled_prefixes: the store's answers, the queries
    api              \* api.py: the request, the response, the executor's queue

\* what the range scan and scan_ip leave alone
outer == <<inv0, target, prefix, auto, fetch, api>>

vars == <<MAX_IP_WORKERS, nhosts, pc, it, futures, task, net, inv, calls, clock,
          dispatched, outer>>

\* ------------------------------------------------------------- helpers
\* Python truthiness of an optional string
Truthy(v) == v # None /\ v # ""

EmptyMap == [k \in {} |-> None]

Rec(mask, reach, macv, dnsv) ==
    [ mask |-> mask,
      custom_fields |-> [ reachability |-> reach, last_scan |-> Before,
                          last_online |-> Before, mac_address |-> macv ],
      dns_name |-> dnsv ]

NoObj == [id |-> 0]

IdleTask == [ pc |-> "idle", pinged |-> FALSE, dns |-> None, mac |-> None,
              now |-> Before, obj |-> NoObj, submittedAt |-> Before ]

\* failed: the inventory call that raised, if one did: lookup (get or filter),
\* update or create
NoCalls == [ creates |-> 0, updates |-> 0, payload |-> Absent, failed |-> "none" ]

\* the entry points that are not running
NoPrefix == [syntax |-> "none", family |-> "v4", base |-> 0, len |-> FullMask]
\* starts: for every scan_prefix call made so far, the number of hosts that
\* were scanned before it
NoAuto == [pc |-> "idle", prefixes |-> <<>>, cur |-> 0, starts |-> <<>>]
Failed == [ok |-> FALSE, records |-> <<>>]    \* the query raises
Ok(records) == [ok |-> TRUE, records |-> records]
NoFetch == [ pc |-> "idle", answers |-> [bool |-> Failed, str |-> Failed],
             queries |-> <<>>, result |-> <<>> ]
NoApi == [pc |-> "idle", allowed |-> "", req |-> Absent, status |-> 0, queue |-> <<>>]

\* host h has address h, and no other entry point runs
Alone ==
    /\ target = [h \in Hosts |-> h]
    /\ prefix = NoPrefix
    /\ auto = NoAuto
    /\ fetch = NoFetch
    /\ api = NoApi

Down == [up |-> FALSE, mac |-> None, dns |-> None]
Up(macv, dnsv) == [up |-> TRUE, mac |-> macv, dns |-> dnsv]

\* the environments a range scan is checked over, per host: nothing stored and
\* no answer, nothing stored and an answer, an Offline record and an answer
RangeEnv == { [net |-> Down, inv |-> <<>>],
              [net |-> Up("b", None), inv |-> <<>>],
              [net |-> Up("b", None), inv |-> <<Rec(FullMask, "Offline", "", "")>>] }

\* an address stored more than once: under two other masks, under another mask
\* and the full one, and twice under the full mask
IpInvMany ==
    { <<Rec(OtherMask, "Offline", "a", ""), Rec(OtherMask - 8, "Online", "", "a")>>,
      <<Rec(OtherMask - 8, "Online", "", "a"), Rec(OtherMask, "Offline", "a", "")>>,
      <<Rec(OtherMask, "Offline", "a", ""), Rec(FullMask, "Online", "", "a")>>,
      <<Rec(FullMask, "Offline", "a", ""), Rec(FullMask, "Online", "", "a")>> }

\* the environments a single scan_ip call is checked over
IpInv == { <<>> } \cup
         { <<Rec(m, r, a, d)>> : m \in {FullMask, OtherMask},
                                 r \in {"Online", "Offline"},
                                 a \in {"", "a"}, d \in {"", "a"} }
         \cup IpInvMany
IpNet == { Down } \cup { Up(a, d) : a \in {None, "a", "b"}, d \in {None, "a", "b"} }

\* --------------------------------------------------------------- probes
is_pingable(h) == net[target[h]].up
get_dns(h) == net[target[h]].dns
get_mac(h) == net[target[h]].mac

Status(pinged) == IF pinged THEN "Online" ELSE "Offline"

\* ------------------------------------------------------ inventory client
Obj(recs, i) == [ id |-> i, custom_fields |-> recs[i].custom_fields,
                  dns_name |-> recs[i].dns_name ]

Multiple == [id |-> 0 - 1]   \* get() matched more than one record: ValueError

\* netbox.ipam.ip_addresses.get(address=f"{ip_str}/32")
InventoryGet(recs) ==
    LET m == { i \in DOMAIN recs : recs[i].mask = FullMask } IN
    IF m = {} THEN NoObj
    ELSE IF Cardinality(m) > 1 THEN Multiple
    ELSE Obj(recs, CHOOSE i \in m : TRUE)

\* netbox.ipam.ip_addresses.filter(address=ip_str): every record of the address
InventoryFilter(recs) == DOMAIN recs

\* the last element of the record set, or None
last_or_none(recs, matches) ==
    IF matches = {} THEN NoObj
    ELSE Obj(recs, CHOOSE i \in matches : \A j \in matches : i >= j)

\* next(iter(recordset), None)
first_or_none(recs, matches) ==
    IF matches = {} THEN NoObj
    ELSE Obj(recs, CHOOSE i \in matches : \A j \in matches : i <= j)

\* a reconciliation that stamps last_scan only when another field is written
UpdatesSuppressed(obj, pinged, now, mac, dns) ==
    LET cf == obj.custom_fields
        status == Status(pinged)
        other ==
              (IF cf.reachability # status THEN "reachability" :> status ELSE EmptyMap)
           @@ (IF pinged THEN "last_online" :> now ELSE EmptyMap)
           @@ (IF Truthy(mac) /\ cf.mac_address # mac
                 THEN "mac_address" :> mac ELSE EmptyMap)
        d == IF Truthy(dns) /\ obj.dns_name # dns THEN dns ELSE Absent IN
    [ custom_fields |-> IF DOMAIN other # {} \/ d # Absent
                        THEN other @@ ("last_scan" :> now) ELSE EmptyMap,
      dns_name |-> d ]

\* a reconciliation that stamps last_online whatever the probe said
UpdatesAlwaysOnline(obj, pinged, now, mac, dns) ==
    LET cf == obj.custom_fields
        status == Status(pinged) IN
    [ custom_fields |->
          (IF cf.reachability # status THEN "reachability" :> status ELSE EmptyMap)
       @@ ("last_scan" :> now)
       @@ ("last_online" :> now)
       @@ (IF Truthy(mac) /\ cf.mac_address # mac
             THEN "mac_address" :> mac ELSE EmptyMap),
      dns_name |-> IF Truthy(dns) /\ obj.dns_name # dns THEN dns ELSE Absent ]

\* a reconciliation that writes the MAC and the DNS name whenever they differ
\* from the stored ones, an empty lookup included
UpdatesUnguarded(obj, pinged, now, mac, dns) ==
    LET cf == obj.custom_fields
        status == Status(pinged)
        macv == IF Truthy(mac) THEN mac ELSE ""
        dnsv == IF Truthy(dns) THEN dns ELSE "" IN
    [ custom_fields |->
          (IF cf.reachability # status THEN "reachability" :> status ELSE EmptyMap)
       @@ ("last_scan" :> now)
       @@ (IF pinged THEN "last_online" :> now ELSE EmptyMap)
       @@ (IF cf.mac_address # macv THEN "mac_address" :> macv ELSE EmptyMap),
      dns_name |-> IF obj.dns_name # dnsv THEN dnsv ELSE Absent ]

\* the dict `updates` of scan_ip, from the fetched record and the probe
Updates(obj, pinged, now, mac, dns) ==
    LET cf == obj.custom_fields
        status == Status(pinged) IN
    [ custom_fields |->
          (IF cf.reachability # status THEN "reachability" :> status ELSE EmptyMap)
       @@ ("last_scan" :> now)
       @@ (IF pinged THEN "last_online" :> now ELSE EmptyMap)
       @@ (IF Truthy(mac) /\ cf.mac_address # mac
             THEN "mac_address" :> mac ELSE EmptyMap),
      dns_name |-> IF Truthy(dns) /\ obj.dns_name # dns THEN dns ELSE Absent ]

\* changed = bool(updates["custom_fields"]) or ("dns_name" in updates)
Changed(u) == DOMAIN u.custom_fields # {} \/ u.dns_name # Absent

\* obj.update(updates) as the store applies it: the given fields, merged
ApplyUpdate(rec, u) ==
    [ rec EXCEPT
        !.custom_fields = [ k \in DOMAIN @ |->
            IF k \in DOMAIN u.custom_fields THEN u.custom_fields[k] ELSE @[k] ],
        !.dns_name = IF u.dns_name # Absent THEN u.dns_name ELSE @ ]

\* a payload that leaves last_online out
PayloadNoLastOnline(now, mac, dns) ==
    [ mask |-> FullMask,
      custom_fields |-> [ reachability |-> "Online", last_scan |-> now,
                          last_online |-> Before,
                          mac_address |-> IF Truthy(mac) THEN mac ELSE "" ],
      dns_name |-> IF Truthy(dns) THEN dns ELSE Absent ]

\* a payload whose address carries another mask than the full one
PayloadOtherMask(now, mac, dns) ==
    [ mask |-> OtherMask,
      custom_fields |-> [ reachability |-> "Online", last_scan |-> now,
                          last_online |-> now,
                          mac_address |-> IF Truthy(mac) THEN mac ELSE "" ],
      dns_name |-> IF Truthy(dns) THEN dns ELSE Absent ]

\* the dict `payload` of scan_ip
Payload(now, mac, dns) ==
    [ mask |-> FullMask,
      custom_fields |-> [ reachability |-> "Online", last_scan |-> now,
                          last_online |-> now,
                          mac_address |-> IF Truthy(mac) THEN mac ELSE "" ],
      dns_name |-> IF Truthy(dns) THEN dns ELSE Absent ]

\* the record the store keeps for a created payload (dns_name defaults to "")
Stored(p) == [ p EXCEPT !.dns_name = IF @ = Absent THEN "" ELSE @ ]

\* a scan_ip without the try block: the error leaves scan_ip
ExceptPcPropagate == "raised"

\* except Exception: log_error(...), and scan_ip returns
ExceptPc == "returned"

Raise(h, call) ==
    /\ task' = [task EXCEPT ![h].pc = ExceptPc]
    /\ calls' = [calls EXCEPT ![h].failed = call]

\* ---------------------------------------------------------------- scan_ip
\* lines 128-132: the probe and the lookups, then the timestamp
Probed(t, h) ==
    LET pinged == is_pingable(h) IN
    [ t EXCEPT !.pinged = pinged,
               !.dns = IF pinged THEN get_dns(h) ELSE None,
               !.mac = IF pinged THEN get_mac(h) ELSE None,
               !.now = clock,
               !.pc = "get" ]

\* a scan_ip called directly (not through a pool) runs lines 128-132
Probe(h) ==
    /\ task[h].pc = "probe"
    /\ task' = [task EXCEPT ![h] = Probed(@, h)]
    /\ UNCHANGED <<outer, MAX_IP_WORKERS, nhosts, pc, it, futures, net, inv, calls, clock,
                   dispatched>>

\* line 135: the exact lookup; the call answers or raises
Get(h) ==
    /\ task[h].pc = "get"
    /\ \E ok \in BOOLEAN :
         LET r == InventoryGet(inv[target[h]]) IN
         IF ~ok \/ r = Multiple
         THEN Raise(h, "lookup")
         ELSE /\ task' = [task EXCEPT ![h] = [ @ EXCEPT
                             !.obj = r,
                             !.pc = IF r.id = 0 THEN "filter" ELSE "reconcile" ]]
              /\ UNCHANGED calls
    /\ UNCHANGED <<outer, MAX_IP_WORKERS, nhosts, pc, it, futures, net, inv, clock, dispatched>>

\* lines 137-139: the lookup by bare address, made when the exact one found nothing
Filter(h) ==
    /\ task[h].pc = "filter"
    /\ \E ok \in BOOLEAN :
         IF ~ok
         THEN Raise(h, "lookup")
         ELSE /\ task' = [task EXCEPT ![h] = [ @ EXCEPT
                             !.obj = first_or_none(inv[target[h]],
                                                  InventoryFilter(inv[target[h]])),
                             !.pc = "reconcile" ]]
              /\ UNCHANGED calls
    /\ UNCHANGED <<outer, MAX_IP_WORKERS, nhosts, pc, it, futures, net, inv, clock, dispatched>>

\* lines 141-161: a record was found
Update(h) ==
    /\ task[h].pc = "reconcile"
    /\ task[h].obj.id # 0
    /\ LET t == task[h]
           u == Updates(t.obj, t.pinged, t.now, t.mac, t.dns) IN
       IF Changed(u)
       THEN \E ok \in BOOLEAN :
              /\ calls' = [calls EXCEPT ![h] = [ @ EXCEPT
                              !.updates = @ + 1, !.payload = u,
                              !.failed = IF ok THEN @ ELSE "update" ]]
              /\ inv' = IF ok
                        THEN [inv EXCEPT ![target[h]][t.obj.id] = ApplyUpdate(@, u)]
                        ELSE inv
              /\ task' = [task EXCEPT ![h].pc = IF ok THEN "returned" ELSE ExceptPc]
       ELSE /\ task' = [task EXCEPT ![h].pc = "returned"]
            /\ UNCHANGED <<inv, calls>>
    /\ UNCHANGED <<outer, MAX_IP_WORKERS, nhosts, pc, it, futures, net, clock, dispatched>>

\* a create that does not ask whether the host answered
ShouldCreateAlways(t) == t.obj.id = 0

\* lines 163-164: `else:` and `if pinged:` guard the create
ShouldCreate(t) == t.obj.id = 0 /\ t.pinged

\* lines 163-178: no record, and the host answered
Create(h) ==
    /\ task[h].pc = "reconcile"
    /\ ShouldCreate(task[h])
    /\ LET t == task[h]
           p == Payload(t.now, t.mac, t.dns) IN
       \E ok \in BOOLEAN :
         /\ calls' = [calls EXCEPT ![h] = [ @ EXCEPT
                         !.creates = @ + 1, !.failed = IF ok THEN @ ELSE "create" ]]
         /\ inv' = IF ok THEN [inv EXCEPT ![target[h]] = Append(@, Stored(p))]
                         ELSE inv
         /\ task' = [task EXCEPT ![h].pc = IF ok THEN "returned" ELSE ExceptPc]
    /\ UNCHANGED <<outer, MAX_IP_WORKERS, nhosts, pc, it, futures, net, clock, dispatched>>

\* lines 163-164: no record, and the host did not answer
Skip(h) ==
    /\ task[h].pc = "reconcile"
    /\ task[h].obj.id = 0
    /\ ~ShouldCreate(task[h])
    /\ task' = [task EXCEPT ![h].pc = "returned"]
    /\ UNCHANGED <<outer, MAX_IP_WORKERS, nhosts, pc, it, futures, net, inv, calls, clock,
                   dispatched>>

scan_ip(h) == Get(h) \/ Filter(h) \/ Update(h) \/ Create(h) \/ Skip(h)

\* the wall clock advances; the time that counts is spent in the probes and
\* the inventory calls, so it advances while a scan_ip call is unfinished
Tick ==
    /\ clock < MaxTicks * TickSeconds
    /\ \E h \in Hosts : task[h].pc \in {"pending", "probe", "get", "filter", "reconcile"}
    /\ clock' = clock + TickSeconds
    /\ UNCHANGED <<outer, MAX_IP_WORKERS, nhosts, pc, it, futures, task, net, inv, calls,
                   dispatched>>

\* ------------------------------------------- a single scan_ip call (--ip)
InitIp ==
    /\ MAX_IP_WORKERS \in 1..MaxWorkers
    /\ nhosts = 1
    /\ pc = "ip"
    /\ it = 1
    /\ futures = {}
    /\ task = [h \in Hosts |-> IF h = 1 THEN [IdleTask EXCEPT !.pc = "probe", !.submittedAt = 0]
                                        ELSE IdleTask]
    /\ \E n \in IpNet : net = [h \in Hosts |-> IF h = 1 THEN n ELSE Down]
    /\ \E r \in IpInv : inv = [h \in Hosts |-> IF h = 1 THEN r ELSE <<>>]
    /\ calls = [h \in Hosts |-> NoCalls]
    /\ clock = 0
    /\ dispatched = <<>>
    /\ inv0 = inv
    /\ Alone

NextIp == Tick \/ Probe(1) \/ Get(1) \/ Filter(1) \/ Update(1) \/ Create(1) \/ Skip(1)

SpecIp == InitIp /\ [][NextIp]_vars

\* ------------------------------------------------------------ scan_prefix
\* max_workers = _MAX_IP_WORKERS
max_workers == MAX_IP_WORKERS

\* a future is done once scan_ip has returned or raised
Done(h) == task[h].pc \in {"returned", "raised"}
Running(h) == task[h].pc \in {"get", "filter", "reconcile"}
Pending(h) == task[h].pc = "pending"

\* zip(it, range(max_workers)): `it` is asked first, and loses a host when
\* range is exhausted
ZipNextSwapped(i, pos) ==
    IF pos > nhosts THEN [yield |-> FALSE, pos |-> pos]
    ELSE IF i >= max_workers THEN [yield |-> FALSE, pos |-> pos + 1]
    ELSE [yield |-> TRUE, pos |-> pos + 1]

\* zip(range(max_workers - 1), it): a window one short
ZipNextShort(i, pos) ==
    IF i >= max_workers - 1 THEN [yield |-> FALSE, pos |-> pos]
    ELSE IF pos > nhosts THEN [yield |-> FALSE, pos |-> pos]
    ELSE [yield |-> TRUE, pos |-> pos + 1]

\* one step of zip(range(max_workers), it) after i pairs, the generator at pos:
\* zip asks range first, and asks `it` only when range had an element
ZipNext(i, pos) ==
    IF i >= max_workers THEN [yield |-> FALSE, pos |-> pos]
    ELSE IF pos > nhosts THEN [yield |-> FALSE, pos |-> pos]
    ELSE [yield |-> TRUE, pos |-> pos + 1]

\* a refill that takes any tracked future, done or not
AnyFuture(fs) == fs

\* the futures as_completed(futures) can yield first: those that are done
AsCompleted(fs) == { f \in fs : Done(f) }

\* pool.submit(scan_ip, ip, net.prefixlen)
Submit(h) ==
    /\ task' = [task EXCEPT ![h] = [ @ EXCEPT !.pc = "pending", !.submittedAt = clock ]]
    /\ dispatched' = Append(dispatched, h)

\* line 197: the dict comprehension fills the window
Fill ==
    /\ pc = "fill"
    /\ LET z == ZipNext(Cardinality(futures), it) IN
       IF z.yield
       THEN /\ Submit(it)
            /\ futures' = futures \cup {it}
            /\ it' = z.pos
            /\ pc' = pc
       ELSE /\ pc' = "loop"
            /\ it' = z.pos
            /\ UNCHANGED <<futures, task, dispatched>>
    /\ UNCHANGED <<outer, MAX_IP_WORKERS, nhosts, net, inv, calls, clock>>

\* lines 198-201: one iteration of `for ip in it`
Refill ==
    /\ pc = "loop"
    /\ it <= nhosts
    /\ \E done \in AsCompleted(futures) :
         /\ futures' = (futures \ {done}) \cup {it}
         /\ Submit(it)
    /\ it' = it + 1
    /\ UNCHANGED <<outer, MAX_IP_WORKERS, nhosts, pc, net, inv, calls, clock>>

\* line 198: the generator is exhausted
LoopEnd ==
    /\ pc = "loop"
    /\ it > nhosts
    /\ pc' = "join"
    /\ UNCHANGED <<outer, MAX_IP_WORKERS, nhosts, it, futures, task, net, inv, calls, clock,
                   dispatched>>

\* a scan_prefix that reports completion without waiting
NotWaited == TRUE

\* lines 202-203 and the end of the with block: every future is waited for
Joined == \A h \in Hosts : ~Pending(h) /\ ~Running(h)

\* lines 202-205: drain the window, shut the pool down, log completion
Join ==
    /\ pc = "join"
    /\ Joined
    /\ pc' = "done"
    /\ UNCHANGED <<outer, MAX_IP_WORKERS, nhosts, it, futures, task, net, inv, calls, clock,
                   dispatched>>

\* ThreadPoolExecutor(max_workers=max_workers): a free worker takes a queued
\* call and runs it up to its first inventory call (lines 128-132)
StartTask(h) ==
    /\ Pending(h)
    /\ Cardinality({ g \in Hosts : Running(g) }) < max_workers
    /\ task' = [task EXCEPT ![h] = Probed(@, h)]
    /\ UNCHANGED <<outer, MAX_IP_WORKERS, nhosts, pc, it, futures, net, inv, calls, clock,
                   dispatched>>

Orchestrator == Fill \/ Refill \/ LoopEnd \/ Join
Worker(h) == StartTask(h) \/ scan_ip(h)

Init ==
    /\ MAX_IP_WORKERS \in 1..MaxWorkers
    /\ nhosts \in 1..MaxHosts
    /\ pc = "fill"
    /\ it = 1
    /\ futures = {}
    /\ task = [h \in Hosts |-> IdleTask]
    /\ \E e \in [Hosts -> RangeEnv] :
         /\ net = [h \in Hosts |-> IF h <= nhosts THEN e[h].net ELSE Down]
         /\ inv = [h \in Hosts |-> IF h <= nhosts THEN e[h].inv ELSE <<>>]
    /\ calls = [h \in Hosts |-> NoCalls]
    /\ clock = 0
    /\ dispatched = <<>>
    /\ inv0 = inv
    /\ Alone

Next == Orchestrator \/ \E h \in Hosts : Worker(h)

Spec == Init /\ [][Next]_vars

\* the range scan with the wall clock running
NextTimed == Tick \/ Orchestrator \/ \E h \in Hosts : Worker(h)

SpecTimed == Init /\ [][NextTimed]_vars

\* the threads do not all stop while one of them can take a step: every probe
\* and every inventory call ends, and a waiting main thread is woken
LiveSpec == Spec /\ WF_vars(Next)

\* ------------------------------------- scan_prefix, from its prefix string
\* A prefix string is what it says: whether it has the form address/length at
\* all, the family of the address, the address (counted from the start of a
\* small block of addresses) and the length.
V6Width == 4 * FullMask
Width(f) == IF f = "v4" THEN FullMask ELSE V6Width

Addrs == 0..MaxHosts

NetSize(f, len) == 2 ^ (Width(f) - len)

NoNet == [ok |-> FALSE, family |-> "v4", network_address |-> 0, prefixlen |-> 0]

\* the address of the prefix has bits set beyond its length
HostBitsSet(p) ==
    p.syntax = "ok" /\ p.len <= Width(p.family) /\ p.base % NetSize(p.family, p.len) # 0

\* ipaddress.ip_network(prefix_str): strict, host bits set is a ValueError
ip_network_strict(p) ==
    IF p.syntax # "ok" \/ p.len > Width(p.family) THEN NoNet
    ELSE IF HostBitsSet(p) THEN NoNet
    ELSE [ ok |-> TRUE, family |-> p.family, network_address |-> p.base,
           prefixlen |-> p.len ]

\* ipaddress.ip_network(prefix_str, strict=False): ValueError for a string that
\* is no address/length or whose length exceeds the family's width; host bits
\* are masked off
ip_network(p) ==
    IF p.syntax # "ok" \/ p.len > Width(p.family) THEN NoNet
    ELSE [ ok |-> TRUE, family |-> p.family,
           network_address |-> p.base - (p.base % NetSize(p.family, p.len)),
           prefixlen |-> p.len ]

\* net.hosts(): the usable hosts, ascending, as first address and count.  The
\* single address of a full-length network, both addresses of a network one
\* bit short; otherwise IPv4 leaves out the network and the broadcast address,
\* IPv6 the network (Subnet-Router anycast) address only.
hosts(n) ==
    LET w == Width(n.family)
        size == NetSize(n.family, n.prefixlen) IN
    IF n.prefixlen = w THEN [first |-> n.network_address, count |-> 1]
    ELSE IF n.prefixlen = w - 1 THEN [first |-> n.network_address, count |-> 2]
    ELSE IF n.family = "v4"
         THEN [first |-> n.network_address + 1, count |-> size - 2]
         ELSE [first |-> n.network_address + 1, count |-> size - 1]

NumHosts(p) == IF ip_network(p).ok THEN hosts(ip_network(p)).count ELSE 0

\* the addresses a range scan of prefix p scans
HostAddrs(p) ==
    LET n == ip_network(p) IN
    IF ~n.ok THEN {} ELSE hosts(n).first .. (hosts(n).first + hosts(n).count - 1)

Garbage == [syntax |-> "garbage", family |-> "v4", base |-> 0, len |-> 0]

\* a prefix whose usable hosts are at most MaxHosts addresses of the block
Fits(p) == NumHosts(p) <= MaxHosts /\ HostAddrs(p) \subseteq Addrs

\* the prefix strings scan_prefix is checked over: one that is no prefix at
\* all, lengths beyond the family's width, and the prefixes that fit
PrefixArgs ==
    { Garbage } \cup
    { p \in [ syntax : {"ok"}, family : {"v4"}, base : Addrs,
              len : (FullMask - MaxHosts)..(FullMask + 1) ] : Fits(p) }
    \cup
    { p \in [ syntax : {"ok"}, family : {"v6"}, base : Addrs,
              len : (V6Width - MaxHosts)..(V6Width + 1) ] : Fits(p) }

\* a scan_prefix that lets the ValueError out
InvalidPcPropagate == "raised"

\* lines 190-192: except ValueError: log_error(...); return
InvalidPc == "invalid"

\* lines 188-196: parse the prefix; the hosts the generator `it` will yield
\* take the next free host numbers
ParsePrefix ==
    /\ pc = "parse"
    /\ LET n == ip_network(prefix) IN
       IF ~n.ok
       THEN /\ pc' = InvalidPc
            /\ UNCHANGED <<nhosts, it, futures, target>>
       ELSE LET hs == hosts(n) IN
            /\ pc' = "fill"
            /\ it' = nhosts + 1
            /\ nhosts' = nhosts + hs.count
            /\ futures' = {}
            /\ target' = [ h \in Hosts |->
                             IF h > nhosts /\ h <= nhosts + hs.count
                             THEN hs.first + (h - nhosts) - 1 ELSE target[h] ]
    /\ UNCHANGED <<MAX_IP_WORKERS, task, net, inv, calls, clock, dispatched, inv0,
                   prefix, auto, fetch, api>>

InitPrefix ==
    /\ MAX_IP_WORKERS \in 1..MaxWorkers
    /\ nhosts = 0
    /\ pc = "parse"
    /\ it = 1
    /\ futures = {}
    /\ task = [h \in Hosts |-> IdleTask]
    /\ prefix \in PrefixArgs
    /\ \E e \in [HostAddrs(prefix) -> RangeEnv] :
         /\ net = [a \in Addrs |-> IF a \in HostAddrs(prefix) THEN e[a].net ELSE Down]
         /\ inv = [a \in Addrs |-> IF a \in HostAddrs(prefix) THEN e[a].inv ELSE <<>>]
    /\ calls = [h \in Hosts |-> NoCalls]
    /\ clock = 0
    /\ dispatched = <<>>
    /\ inv0 = inv
    /\ target = [h \in Hosts |-> 0]
    /\ auto = NoAuto
    /\ fetch = NoFetch
    /\ api = NoApi

NextPrefix == ParsePrefix \/ Orchestrator \/ \E h \in Hosts : Worker(h)

SpecPrefix == InitPrefix /\ [][NextPrefix]_vars

\* -------------------------------------------------- fetch_enabled_prefixes
\* [str(p.prefix) for p in records]
PrefixStrs(records) == [i \in DOMAIN records |-> records[i].prefix]

\* a fetch that returns whatever the first query answered
AnsweredAlways(records) == TRUE

\* `if records:`
Answered(records) == records # <<>>

\* lines 214-221: the query with the native boolean
FetchBool ==
    /\ fetch.pc = "bool"
    /\ LET a == fetch.answers.bool IN
       fetch' = [ fetch EXCEPT
           !.queries = Append(@, "True"),
           !.result = IF a.ok /\ Answered(a.records) THEN PrefixStrs(a.records) ELSE @,
           !.pc = IF a.ok /\ Answered(a.records) THEN "returned" ELSE "str" ]
    /\ UNCHANGED <<MAX_IP_WORKERS, nhosts, pc, it, futures, task, net, inv, calls, clock,
                   dispatched, inv0, target, prefix, auto, api>>

\* lines 223-232: the query with the string literal, then `return []`
FetchStr ==
    /\ fetch.pc = "str"
    /\ LET a == fetch.answers.str IN
       fetch' = [ fetch EXCEPT
           !.queries = Append(@, "true"),
           !.result = IF a.ok /\ Answered(a.records) THEN PrefixStrs(a.records) ELSE <<>>,
           !.pc = "returned" ]
    /\ UNCHANGED <<MAX_IP_WORKERS, nhosts, pc, it, futures, task, net, inv, calls, clock,
                   dispatched, inv0, target, prefix, auto, api>>

\* ------------------------------------------------------------ run_auto_scan
\* lines 240-243: prefixes = fetch_enabled_prefixes(); return if there are none
AutoPrefixes ==
    /\ auto.pc = "fetch"
    /\ fetch.pc = "returned"
    /\ auto' = [ auto EXCEPT !.prefixes = fetch.result,
                             !.pc = IF fetch.result = <<>> THEN "done" ELSE "loop" ]
    /\ UNCHANGED <<MAX_IP_WORKERS, nhosts, pc, it, futures, task, net, inv, calls, clock,
                   dispatched, inv0, target, prefix, fetch, api>>

\* a loop that goes on to the next prefix while the window is being drained
ScanPrefixLeft == pc \in {"auto", "join", "done", InvalidPc}

\* scan_prefix is not running: not called yet, or it has returned
ScanPrefixReturned == pc \in {"auto", "done", InvalidPc}

\* lines 246-250: `for p in prefixes: scan_prefix(p)`, one call after the other
AutoScan ==
    /\ auto.pc = "loop"
    /\ ScanPrefixReturned
    /\ IF auto.cur < Len(auto.prefixes)
       THEN /\ auto' = [auto EXCEPT !.cur = @ + 1, !.starts = Append(@, nhosts)]
            /\ prefix' = auto.prefixes[auto.cur + 1]
            /\ pc' = "parse"
       ELSE /\ auto' = [auto EXCEPT !.pc = "done"]
            /\ UNCHANGED <<prefix, pc>>
    /\ UNCHANGED <<MAX_IP_WORKERS, nhosts, it, futures, task, net, inv, calls, clock,
                   dispatched, inv0, target, fetch, api>>

RECURSIVE SumHosts(_, _)
\* the number of usable hosts of the first k prefixes of ps
SumHosts(ps, k) == IF k = 0 THEN 0 ELSE SumHosts(ps, k - 1) + NumHosts(ps[k])

\* the addresses the discovered prefixes are drawn from (two neighbours), and
\* the prefixes: as the store keeps them, without host bits; they can overlap
AutoAddrs == 0..1
AutoPrefixArgs ==
    { p \in PrefixArgs : /\ p.family = "v4"
                         /\ ip_network(p).ok /\ ~HostBitsSet(p)
                         /\ HostAddrs(p) \subseteq AutoAddrs }

\* the lists of records a query can answer with
AutoRecords ==
    { rs \in UNION { [1..k -> [prefix : AutoPrefixArgs]] : k \in 0..MaxRanges } :
        SumHosts(PrefixStrs(rs), Len(rs)) <= MaxHosts }

InitAuto ==
    /\ MAX_IP_WORKERS \in {1, MaxWorkers}
    /\ nhosts = 0
    /\ pc = "auto"
    /\ it = 1
    /\ futures = {}
    /\ task = [h \in Hosts |-> IdleTask]
    /\ prefix = NoPrefix
    /\ \E e \in [AutoAddrs -> RangeEnv] :
         /\ net = [a \in Addrs |-> IF a \in AutoAddrs THEN e[a].net ELSE Down]
         /\ inv = [a \in Addrs |-> IF a \in AutoAddrs THEN e[a].inv ELSE <<>>]
    /\ calls = [h \in Hosts |-> NoCalls]
    /\ clock = 0
    /\ dispatched = <<>>
    /\ inv0 = inv
    /\ target = [h \in Hosts |-> 0]
    /\ auto = [NoAuto EXCEPT !.pc = "fetch"]
    /\ \E rs \in AutoRecords :
       \E ans \in { [bool |-> Ok(rs), str |-> Failed], [bool |-> Failed, str |-> Ok(rs)] } :
         fetch = [NoFetch EXCEPT !.pc = "bool", !.answers = ans]
    /\ api = NoApi

NextAuto ==
    \/ FetchBool \/ FetchStr \/ AutoPrefixes \/ AutoScan
    \/ ParsePrefix \/ Orchestrator
    \/ \E h \in Hosts : Worker(h)

SpecAuto == InitAuto /\ [][NextAuto]_vars

\* ------------------------------- fetch_enabled_prefixes, called on its own
InitFetch ==
    /\ MAX_IP_WORKERS = MaxWorkers
    /\ nhosts = 0
    /\ pc = "idle"
    /\ it = 1
    /\ futures = {}
    /\ task = [h \in Hosts |-> IdleTask]
    /\ prefix = NoPrefix
    /\ net = [a \in Addrs |-> Down]
    /\ inv = [a \in Addrs |-> <<>>]
    /\ calls = [h \in Hosts |-> NoCalls]
    /\ clock = 0
    /\ dispatched = <<>>
    /\ inv0 = inv
    /\ target = [h \in Hosts |-> 0]
    /\ auto = NoAuto
    /\ \E a, b \in {Failed} \cup { Ok(rs) : rs \in AutoRecords } :
         fetch = [NoFetch EXCEPT !.pc = "bool", !.answers = [bool |-> a, str |-> b]]
    /\ api = NoApi

NextFetch == FetchBool \/ FetchStr

SpecFetch == InitFetch /\ [][NextFetch]_vars

\* ------------------------------------------------------------------ api.py
\* A posted string is a sequence of pieces: a run of characters outside
\* [0-9A-Fa-f.:/-] (junk), or a run of characters inside it that reads as an
\* address, as an address/length, or as neither.
Junk == [kind |-> "junk", slash |-> FALSE, p |-> NoPrefix]
Tok(slash, p) == [kind |-> "addr", slash |-> slash, p |-> p]

ApiPieces ==
    { Junk, Tok(FALSE, Garbage) }
    \cup { Tok(FALSE, [syntax |-> "ok", family |-> f, base |-> 1, len |-> Width(f)]) :
             f \in {"v4", "v6"} }
    \cup { Tok(TRUE, [syntax |-> "ok", family |-> "v4", base |-> 1, len |-> l]) :
             l \in (FullMask - 1)..(FullMask + 1) }

ApiTexts == UNION { [1..k -> ApiPieces] : k \in 0..MaxPieces }

\* the JSON body: too large, not JSON (or a falsy value), a truthy value that
\* is no object, or an object; the value under the endpoint's key: missing (or
\* falsy), a truthy value that is no string, or a string
NoBody(kind) == [kind |-> kind, value |-> "missing", text |-> <<>>]
ApiBodies ==
    { NoBody(k) : k \in {"toolarge", "notjson", "nondict", "dict"} }
    \cup { [kind |-> "dict", value |-> "nonstr", text |-> <<>>] }
    \cup { [kind |-> "dict", value |-> "text", text |-> t] : t \in ApiTexts }

\* the header X-Forwarded-For is a list of entries (empty: no header)
Requests ==
    [ endpoint : {"ip", "prefix"},
      xff : { <<>>, <<"netbox">>, <<"other", "netbox">> },
      remote : {"netbox", "other"},
      key : {SCANNER_API_KEY, "wrong"},
      mimetype : {"application/json", "text/plain"},
      body : ApiBodies ]

\* line 23: the first entry of X-Forwarded-For, else the peer address
Src(req) == IF req.xff = <<>> THEN req.remote ELSE req.xff[1]

\* a decorator that looks at the key before the source
require_auth_key_first(req, allowed) ==
    IF req.key # SCANNER_API_KEY THEN 401
    ELSE IF allowed # "" /\ Src(req) # allowed THEN 403
    ELSE 0

\* lines 20-34: the status the decorator answers with, 0 when it calls on
require_auth(req, allowed) ==
    IF allowed # "" /\ Src(req) # allowed THEN 403
    ELSE IF req.key # SCANNER_API_KEY THEN 401
    ELSE 0

\* re.sub(r"[^0-9A-Fa-f\.:/\-]", "", val or "")
sanitize(text) == SelectSeq(text, LAMBDA c : c.kind # "junk")

\* ipaddress.ip_address(ip) does not raise
ip_address_ok(text) ==
    Len(text) = 1 /\ ~text[1].slash /\ text[1].p.syntax = "ok"

\* ipaddress.ip_network(pref, strict=False) does not raise
ip_network_ok(text) == Len(text) = 1 /\ ip_network(text[1].p).ok

\* lines 51-64 and 71-84 up to the validation: the status, 0 when the string
\* is valid; reading the body answers 413 when it is too large, and .get on a
\* value that is no object or re.sub on one that is no string is an unhandled
\* error (500)
Checked(req, valid) ==
    IF req.mimetype # "application/json" THEN 415
    ELSE IF req.body.kind = "toolarge" THEN 413
    ELSE IF req.body.kind = "nondict" \/ req.body.value = "nonstr" THEN 500
    ELSE IF ~valid THEN 400
    ELSE 0

Job(fn, arg) == [fn |-> fn, arg |-> arg]

Respond(status, job) ==
    /\ api' = [ api EXCEPT !.pc = "responded",
                           !.status = IF status = 0 THEN 202 ELSE status,
                           !.queue = IF status = 0 THEN Append(@, job) ELSE @ ]
    /\ UNCHANGED <<MAX_IP_WORKERS, nhosts, pc, it, futures, task, net, inv, calls, clock,
                   dispatched, inv0, target, prefix, auto, fetch>>

\* POST /scan/ip
ip_endpoint ==
    /\ api.pc = "request"
    /\ api.req.endpoint = "ip"
    /\ LET req == api.req
           ip == sanitize(req.body.text)
           auth == require_auth(req, api.allowed) IN
       Respond(IF auth # 0 THEN auth ELSE Checked(req, ip_address_ok(ip)),
               Job("scan_ip", ip))

\* POST /scan/prefix
prefix_endpoint ==
    /\ api.pc = "request"
    /\ api.req.endpoint = "prefix"
    /\ LET req == api.req
           pref == sanitize(req.body.text)
           auth == require_auth(req, api.allowed) IN
       Respond(IF auth # 0 THEN auth ELSE Checked(req, ip_network_ok(pref)),
               Job("scan_prefix", pref))

InitApi ==
    /\ MAX_IP_WORKERS = MaxWorkers
    /\ nhosts = 0
    /\ pc = "idle"
    /\ it = 1
    /\ futures = {}
    /\ task = [h \in Hosts |-> IdleTask]
    /\ prefix = NoPrefix
    /\ net = [a \in Addrs |-> Down]
    /\ inv = [a \in Addrs |-> <<>>]
    /\ calls = [h \in Hosts |-> NoCalls]
    /\ clock = 0
    /\ dispatched = <<>>
    /\ inv0 = inv
    /\ target = [h \in Hosts |-> 0]
    /\ auto = NoAuto
    /\ fetch = NoFetch
    /\ \E req \in Requests, allowed \in {"", "netbox"} :
         api = [NoApi EXCEPT !.pc = "request", !.req = req, !.allowed = allowed]

NextApi == ip_endpoint \/ prefix_endpoint

SpecApi == InitApi /\ [][NextApi]_vars

\* ------------------------------ two scan_ip jobs on the API's executor
\* executor = ThreadPoolExecutor(max_workers=int(MAX_WORKERS)): a free thread
\* takes the oldest queued scan_ip job and calls scan_ip(ip, 32)
RunScanIp(h) ==
    /\ api.queue # <<>>
    /\ Head(api.queue).fn = "scan_ip"
    /\ task[h].pc = "idle"
    /\ \A g \in Hosts : g < h => task[g].pc # "idle"
    /\ Cardinality({ g \in Hosts : task[g].pc = "probe" \/ Running(g) }) < MAX_WORKERS
    /\ task' = [task EXCEPT ![h] = [IdleTask EXCEPT !.pc = "probe", !.submittedAt = clock]]
    /\ target' = [target EXCEPT ![h] = Head(api.queue).arg[1].p.base]
    /\ api' = [api EXCEPT !.queue = Tail(@)]
    /\ UNCHANGED <<MAX_IP_WORKERS, nhosts, pc, it, futures, net, inv, calls, clock,
                   dispatched, inv0, prefix, auto, fetch>>

\* the address both requests named
SameIp == <<Tok(FALSE, [syntax |-> "ok", family |-> "v4", base |-> 1, len |-> FullMask])>>

InitRace ==
    /\ MAX_IP_WORKERS = MaxWorkers
    /\ nhosts = 0
    /\ pc = "idle"
    /\ it = 1
    /\ futures = {}
    /\ task = [h \in Hosts |-> IdleTask]
    /\ prefix = NoPrefix
    /\ \E e \in RangeEnv :
         /\ net = [a \in Addrs |-> IF a = 1 THEN e.net ELSE Down]
         /\ inv = [a \in Addrs |-> IF a = 1 THEN e.inv ELSE <<>>]
    /\ calls = [h \in Hosts |-> NoCalls]
    /\ clock = 0
    /\ dispatched = <<>>
    /\ inv0 = inv
    /\ target = [h \in Hosts |-> 0]
    /\ auto = NoAuto
    /\ fetch = NoFetch
    /\ api = [NoApi EXCEPT !.queue = <<Job("scan_ip", SameIp), Job("scan_ip", SameIp)>>]

NextRace == \E h \in Hosts : RunScanIp(h) \/ Probe(h) \/ scan_ip(h)

SpecRace == InitRace /\ [][NextRace]_vars

\* ------------------------------------------------------------------ claims
InFlight == { h \in Hosts : Pending(h) \/ Running(h) }
Writing == { h \in Hosts : task[h].pc = "reconcile" }
Submitted(h) == task[h].pc # "idle"

\* C1: during a range scan the scan_ip calls that are submitted and not yet
\* finished never outnumber the worker bound, so neither do the calls that are
\* running nor those talking to the inventory; a host leaves the window (its
\* slot is given to the next host) only once its scan_ip, reconciliation
\* included, has finished.
C1_BoundedInFlight ==
    /\ Cardinality(InFlight) <= MAX_IP_WORKERS
    /\ Cardinality({ h \in Hosts : Running(h) }) <= MAX_IP_WORKERS
    /\ Cardinality(Writing) <= MAX_IP_WORKERS
    /\ \A h \in Hosts : Submitted(h) /\ h \notin futures => Done(h)

C1_Witness ==
    /\ nhosts > MAX_IP_WORKERS
    /\ MAX_IP_WORKERS >= 2
    /\ Cardinality(Writing) = MAX_IP_WORKERS
    /\ \E h \in Hosts : Done(h) /\ h \notin futures

\* the lookups of scan_ip(h) both answered (neither raised)
LookedUp(h) == Done(h) /\ calls[h].failed # "lookup"

\* C2: for an address whose probe is unreachable no create call is ever
\* issued, and while the address has no inventory record no update call is
\* issued either: the inventory keeps no record for it.
C2_UnreachableUnknownNoWrite ==
    \A h \in Hosts :
        ~is_pingable(h) =>
            /\ calls[h].creates = 0
            /\ inv[h] = <<>> => calls[h].updates = 0

C2_Witness ==
    /\ pc = "ip"
    /\ ~is_pingable(1)
    /\ inv[1] = <<>>
    /\ task[1].pc = "returned"
    /\ calls[1].failed = "none"

\* C3: when both lookups answered that the address has no record and the
\* probe was reachable, scan_ip has issued exactly one create call and no
\* update call by the time it returns; unless that create raised, the address
\* then has one record, under the full mask, with reachability "Online" and
\* last_scan and last_online both equal to the probe timestamp.
C3_ReachableUnknownCreatesOnce ==
    \A h \in Hosts :
        LookedUp(h) /\ task[h].obj.id = 0 /\ task[h].pinged =>
            /\ calls[h].creates = 1
            /\ calls[h].updates = 0
            /\ calls[h].failed = "none" =>
                 /\ Len(inv[h]) = 1
                 /\ inv[h][1].mask = FullMask
                 /\ inv[h][1].custom_fields.reachability = "Online"
                 /\ inv[h][1].custom_fields.last_scan = task[h].now
                 /\ inv[h][1].custom_fields.last_online = task[h].now

C3_Witness ==
    /\ pc = "ip"
    /\ task[1].pc = "returned"
    /\ task[1].pinged
    /\ task[1].obj.id = 0
    /\ calls[1].failed = "none"
    /\ calls[1].creates = 1
    /\ Len(inv[1]) = 1
    /\ clock > task[1].now

\* the case of C4: a record was found, the probe is unreachable (so there is
\* no MAC or DNS lookup to differ and last_online is not set) and the stored
\* reachability is already "Offline"
OnlyLastScan(h) ==
    /\ Done(h)
    /\ task[h].obj.id # 0
    /\ ~task[h].pinged
    /\ task[h].obj.custom_fields.reachability = "Offline"

\* C4 as stated: in that case no update call is issued and the record is as fetched.
C4_Original ==
    \A h \in Hosts :
        OnlyLastScan(h) =>
            /\ calls[h].updates = 0
            /\ inv[h][task[h].obj.id].custom_fields = task[h].obj.custom_fields

\* C4, amended: in that case scan_ip issues exactly one update call, whose only
\* field is last_scan set to the probe timestamp, and no create call; unless the
\* update raised, the record differs from the fetched one in last_scan alone.
C4_LastScanAlwaysWritten ==
    \A h \in Hosts :
        OnlyLastScan(h) =>
            LET t == task[h]
                r == inv[h][t.obj.id] IN
            /\ calls[h].updates = 1
            /\ calls[h].creates = 0
            /\ calls[h].payload = [ custom_fields |-> ("last_scan" :> t.now),
                                    dns_name |-> Absent ]
            /\ r.dns_name = t.obj.dns_name
            /\ r.custom_fields =
                 IF calls[h].failed = "none"
                 THEN [t.obj.custom_fields EXCEPT !.last_scan = t.now]
                 ELSE t.obj.custom_fields

C4_Witness ==
    /\ pc = "ip"
    /\ OnlyLastScan(1)
    /\ calls[1].failed = "none"
    /\ calls[1].updates = 1
    /\ inv[1][1].custom_fields.last_scan = task[1].now
    /\ inv[1][1].custom_fields.mac_address = "a"

\* C5: when a record was found whose stored reachability differs from the
\* probe's status, scan_ip has issued exactly one update call and no create
\* call by the time it returns; the update holds reachability set to the new
\* status and last_scan, and holds last_online exactly when the host answered.
C5_StatusChangeUpdatesOnce ==
    \A h \in Hosts :
        Done(h) /\ task[h].obj.id # 0
                /\ task[h].obj.custom_fields.reachability # Status(task[h].pinged) =>
            LET u == calls[h].payload.custom_fields IN
            /\ calls[h].updates = 1
            /\ calls[h].creates = 0
            /\ "reachability" \in DOMAIN u
            /\ u["reachability"] = Status(task[h].pinged)
            /\ "last_scan" \in DOMAIN u
            /\ u["last_scan"] = task[h].now
            /\ "last_online" \in DOMAIN u <=> task[h].pinged

C5_Witness ==
    /\ pc = "ip"
    /\ task[1].pc = "returned"
    /\ task[1].pinged
    /\ task[1].obj.id # 0
    /\ task[1].obj.custom_fields.reachability = "Offline"
    /\ calls[1].updates = 1
    /\ calls[1].failed = "none"
    /\ inv[1][1].custom_fields.reachability = "Online"
    /\ inv[1][1].custom_fields.last_online = task[1].now

\* scan_ip(h) got as far as deciding on a write: it wrote once, or had nothing to write
Reconciled(h) ==
    \/ calls[h].creates + calls[h].updates = 1
    \/ task[h].obj.id = 0 /\ ~task[h].pinged

\* C6: an inventory call that raises never leaves scan_ip as an exception: the
\* call returns at once, having issued at most one write for its host (no
\* retry); the range scan is never blocked by it, and when scan_prefix
\* completes every host of the range has been scanned, each host whose
\* inventory calls all answered having been reconciled.
C6_InventoryErrorIsolated ==
    /\ \A h \in Hosts : task[h].pc # "raised"
    /\ \A h \in Hosts : calls[h].failed # "none" => task[h].pc = "returned"
    /\ \A h \in Hosts : calls[h].creates + calls[h].updates <= 1
    /\ pc = "done" =>
         \A h \in 1..nhosts :
             /\ task[h].pc = "returned"
             /\ calls[h].failed = "none" => Reconciled(h)
    /\ pc = "done" \/ ENABLED Next

C6_Witness ==
    /\ pc = "done"
    /\ \E h, g \in 1..nhosts :
         /\ calls[h].failed = "update"
         /\ calls[g].failed = "none"
         /\ calls[g].creates = 1
         /\ Len(inv[g]) = 1

\* C7 as stated: once the range scan has run longer than SCAN_TIMEOUT, no
\* further host is submitted to the pool.
C7_NoDispatchAfterTimeout ==
    \A h \in Hosts : Submitted(h) => task[h].submittedAt <= SCAN_TIMEOUT

\* C8: whatever the number of hosts and the worker bound, the hosts are
\* submitted in ascending address order with none skipped and none repeated:
\* the submissions so far are always hosts 1..k in that order, and they are all
\* of the range once the loop over the generator has ended.
C8_EachHostOnceAscending ==
    /\ \A i \in 1..Len(dispatched) : dispatched[i] = i
    /\ Len(dispatched) <= nhosts
    /\ \A h \in Hosts : Submitted(h) <=> h \in 1..Len(dispatched)
    /\ pc \in {"join", "done"} => Len(dispatched) = nhosts

C8_Witness ==
    /\ pc = "done"
    /\ MAX_IP_WORKERS >= 2
    /\ nhosts > MAX_IP_WORKERS
    /\ Len(dispatched) = nhosts
    /\ \A h \in 1..nhosts : task[h].pc = "returned"

\* C9 as stated: between the end of the initial fill and the exhaustion of the
\* generator, exactly max_workers scan_ip calls are in flight.
C9_Original ==
    pc = "loop" /\ it <= nhosts => Cardinality(InFlight) = MAX_IP_WORKERS

\* C9, amended: between the end of the initial fill and the exhaustion of the
\* generator the window `futures` holds exactly max_workers futures, each in
\* flight or finished and not yet collected; at most max_workers calls are in
\* flight, and whenever fewer are, a finished future is waiting in the window
\* for the next iteration to replace it.
C9_WindowKeptFull ==
    pc = "loop" /\ it <= nhosts =>
        /\ Cardinality(futures) = MAX_IP_WORKERS
        /\ InFlight \subseteq futures
        /\ \A h \in futures : Pending(h) \/ Running(h) \/ Done(h)
        /\ Cardinality(InFlight) <= MAX_IP_WORKERS
        /\ Cardinality(InFlight) < MAX_IP_WORKERS => AsCompleted(futures) # {}

C9_Witness ==
    /\ pc = "loop"
    /\ it <= nhosts
    /\ MAX_IP_WORKERS >= 2
    /\ Cardinality(futures) = MAX_IP_WORKERS
    /\ InFlight = {}

\* C10: with every thread taking the steps it can take, scan_prefix reaches
\* the point where it reports the scan complete, and there the generator is
\* exhausted, every host was submitted and no scan_ip call is pending or running.
C10_TerminatesQuiescent ==
    /\ <>(pc = "done")
    /\ [](pc = "done" =>
            /\ it > nhosts
            /\ \A h \in 1..nhosts : Done(h)
            /\ InFlight = {})

C10_Witness ==
    /\ pc = "done"
    /\ nhosts > MAX_IP_WORKERS
    /\ it > nhosts
    /\ InFlight = {}
    /\ \E h \in 1..nhosts : calls[h].failed # "none"

\* the discovered range a host belongs to, counted from 1 (0: none)
RangeOf(h) ==
    IF h > nhosts THEN 0
    ELSE Cardinality({ r \in DOMAIN auto.starts : auto.starts[r] < h })

\* C11: in auto mode the discovered ranges are scanned one after another, in
\* discovery order: when a host of a range has been handed to a pool, the loop
\* has reached that range, the host is a usable host of that range's prefix,
\* and every scan_ip call of every earlier range has finished.
C11_RangesOneAfterAnother ==
    \A h \in Hosts :
        Submitted(h) /\ auto.pc # "idle" =>
            /\ RangeOf(h) \in 1..auto.cur
            /\ target[h] \in HostAddrs(auto.prefixes[RangeOf(h)])
            /\ \A g \in Hosts : g < h /\ RangeOf(g) < RangeOf(h) => Done(g)

C11_Witness ==
    /\ Len(auto.prefixes) = 2
    /\ NumHosts(auto.prefixes[1]) = 2
    /\ \E h \in Hosts : RangeOf(h) = 2 /\ Running(h)
    /\ \A g \in Hosts : RangeOf(g) = 1 => Done(g) /\ calls[g].creates + calls[g].updates > 0

\* a query answered with at least one record
NonEmpty(a) == a.ok /\ a.records # <<>>

\* C12: fetch_enabled_prefixes returns the prefixes of the boolean query when
\* that query answers with records, otherwise those of the string query when
\* that one answers with records, otherwise the empty list; it ends by
\* returning whichever of the queries raise, and it issues the string query
\* only when the boolean query raised or answered with no record.
C12_FetchFallback ==
    LET a == fetch.answers.bool
        b == fetch.answers.str IN
    /\ fetch.pc \in {"idle", "bool", "str", "returned"}
    /\ fetch.pc = "str" => ~NonEmpty(a) /\ fetch.queries = <<"True">>
    /\ fetch.pc = "returned" =>
         /\ fetch.result = IF NonEmpty(a) THEN PrefixStrs(a.records)
                           ELSE IF NonEmpty(b) THEN PrefixStrs(b.records)
                           ELSE <<>>
         /\ fetch.queries = IF NonEmpty(a) THEN <<"True">> ELSE <<"True", "true">>

C12_Witness ==
    /\ fetch.pc = "returned"
    /\ ~fetch.answers.bool.ok
    /\ NonEmpty(fetch.answers.str)
    /\ fetch.result = PrefixStrs(fetch.answers.str.records)
    /\ Len(fetch.result) = MaxRanges

\* the inventory held no record when scan_prefix was called, and no inventory
\* call of the scan raised
EmptyAndNoErrors ==
    /\ \A a \in Addrs : inv0[a] = <<>>
    /\ \A h \in Hosts : calls[h].failed = "none"

\* C13: when a range scan over an inventory that was empty has completed
\* without an inventory error, then whatever the order the hosts completed in,
\* every address that is a usable host of the range and answers the probe has
\* exactly one record, stored under the full mask /32 with reachability
\* Online, and every other address has none.
C13_OneRecordPerReachableHost ==
    pc = "done" /\ EmptyAndNoErrors =>
        \A a \in Addrs :
            IF a \in HostAddrs(prefix) /\ net[a].up
            THEN /\ Len(inv[a]) = 1
                 /\ inv[a][1].mask = FullMask
                 /\ inv[a][1].custom_fields.reachability = "Online"
            ELSE inv[a] = <<>>

\* 10.0.0.0/30 with only 10.0.0.1 reachable
C13_Witness ==
    /\ pc = "done" /\ EmptyAndNoErrors
    /\ prefix = [syntax |-> "ok", family |-> "v4", base |-> 0, len |-> FullMask - 2]
    /\ net[1].up /\ ~net[2].up
    /\ Len(inv[1]) = 1 /\ inv[1][1].mask = FullMask
    /\ \A a \in Addrs \ {1} : inv[a] = <<>>
    /\ dispatched = <<1, 2>>

\* the prefix with the bits beyond its length cleared
Masked(p) == [p EXCEPT !.base = p.base - (p.base % NetSize(p.family, p.len))]

\* a prefix whose address has host bits set is rejected: no host is probed
C14_Original ==
    HostBitsSet(prefix) =>
        /\ pc \in {"parse", InvalidPc}
        /\ dispatched = <<>>
        /\ \A h \in Hosts : task[h].pc = "idle"

\* C14: a prefix whose address has host bits set beyond its length is not
\* rejected by scan_prefix: it is scanned as the network it lies in, so when
\* the scan has completed, the hosts probed are exactly the usable hosts of
\* the prefix with the host bits cleared.
C14_HostBitsMaskedOff ==
    HostBitsSet(prefix) =>
        /\ pc \notin {InvalidPc, "raised"}
        /\ pc = "done" =>
             /\ { target[dispatched[i]] : i \in DOMAIN dispatched } = HostAddrs(Masked(prefix))
             /\ Len(dispatched) = NumHosts(Masked(prefix))
             /\ \A i \in DOMAIN dispatched : Done(dispatched[i])

C14_Witness ==
    /\ HostBitsSet(prefix)
    /\ prefix.base \notin HostAddrs(Masked(prefix))
    /\ pc = "done"
    /\ Len(dispatched) = 2
    /\ \A i \in DOMAIN dispatched : calls[dispatched[i]].creates = 1

\* a string that is no prefix: not of the form address/length, or a length
\* beyond the width of the address
Malformed(p) == p.syntax # "ok" \/ p.len > Width(p.family)

\* C15: given a malformed prefix string scan_prefix returns at once: it never
\* gets to the worker pool, hands no host to scan_ip, issues no inventory
\* call, and the error does not leave it.
C15_MalformedFailsFast ==
    Malformed(prefix) =>
        /\ pc # "raised"
        /\ pc \notin {"fill", "loop", "join", "done"}
        /\ dispatched = <<>> /\ futures = {}
        /\ \A h \in Hosts : task[h] = IdleTask /\ calls[h] = NoCalls
        /\ inv = inv0

C15_Witness ==
    /\ prefix.syntax = "ok"
    /\ prefix.len > Width(prefix.family)
    /\ pc = InvalidPc

\* C16: when scan_ip has reconciled an existing record, a stored non-empty
\* mac_address or dns_name is still there if the lookup gave nothing (None or
\* empty), and after an unreachable probe (no MAC and no DNS lookup) the
\* record's last_online, mac_address and dns_name are what they were.
C16_EmptyLookupKeepsStored ==
    \A h \in Hosts :
        Done(h) /\ task[h].obj.id > 0 =>
            LET t == task[h]
                old == inv0[target[h]][t.obj.id]
                new == inv[target[h]][t.obj.id] IN
            /\ ~Truthy(t.mac) =>
                 new.custom_fields.mac_address = old.custom_fields.mac_address
            /\ ~Truthy(t.dns) => new.dns_name = old.dns_name
            /\ ~t.pinged =>
                 /\ t.mac = None /\ t.dns = None
                 /\ new.custom_fields.last_online = old.custom_fields.last_online
                 /\ new.custom_fields.mac_address = old.custom_fields.mac_address
                 /\ new.dns_name = old.dns_name

C16_Witness ==
    \E h \in Hosts :
        /\ Done(h) /\ task[h].obj.id > 0
        /\ task[h].pinged /\ task[h].mac = None /\ Truthy(task[h].dns)
        /\ calls[h].updates = 1 /\ calls[h].failed = "none"
        /\ inv0[target[h]][1].custom_fields.mac_address = "a"
        /\ inv0[target[h]][1].dns_name = "a"
        /\ inv[target[h]][1].custom_fields.mac_address = "a"
        /\ inv[target[h]][1].dns_name = task[h].dns
        /\ task[h].dns # "a"

\* C17: the bare-address lookup is made only when the exact lookup found no
\* record; when it then finds records (stored under other masks), scan_ip
\* reconciles against the first of them: one update call and no create call,
\* whether or not the host answered, and when the update did not raise, the
\* first record carries the update and the others are as they were.
C17_FallbackUpdatesFirst ==
    \A h \in Hosts :
        LET t == task[h]
            a == target[h] IN
        /\ t.pc = "filter" => InventoryGet(inv0[a]) = NoObj
        /\ ( /\ Done(h) /\ LookedUp(h)
             /\ InventoryGet(inv0[a]) = NoObj
             /\ inv0[a] # <<>> ) =>
               /\ t.obj.id = 1
               /\ calls[h].updates = 1
               /\ calls[h].creates = 0
               /\ Len(inv[a]) = Len(inv0[a])
               /\ calls[h].failed = "none" =>
                    /\ inv[a][1] = ApplyUpdate(inv0[a][1], calls[h].payload)
                    /\ \A i \in 2..Len(inv[a]) : inv[a][i] = inv0[a][i]

C17_Witness ==
    \E h \in Hosts :
        /\ Done(h) /\ calls[h].failed = "none"
        /\ task[h].pinged
        /\ Len(inv0[target[h]]) = 2
        /\ InventoryGet(inv0[target[h]]) = NoObj
        /\ task[h].obj.id = 1
        /\ calls[h].updates = 1 /\ calls[h].creates = 0
        /\ inv[target[h]][1].custom_fields.reachability = "Online"
        /\ inv0[target[h]][1].custom_fields.reachability = "Offline"

\* C18: for a range of either family, every record the scan creates is stored
\* under the full-width mask of the family of its address: /32 for IPv4,
\* /128 for IPv6.
C18_FullWidthMaskOfFamily ==
    \A a \in Addrs :
        \A i \in DOMAIN inv[a] :
            i > Len(inv0[a]) => inv[a][i].mask = Width(prefix.family)

\* C19: when two scans of one reachable address run concurrently against an
\* inventory holding no record of it, at most one record is created for the
\* address, however their lookups and creates interleave.
C19_AtMostOneCreated ==
    \A a \in Addrs : inv0[a] = <<>> => Len(inv[a]) <= 1

\* what a request has to pass, read off the request itself
SourceOk == api.allowed = "" \/
            (IF api.req.xff = <<>> THEN api.req.remote ELSE api.req.xff[1]) = api.allowed
KeyOk == api.req.key = SCANNER_API_KEY
JsonOk == api.req.mimetype = "application/json"
BodyRead == api.req.body.kind \in {"notjson", "dict"} /\ api.req.body.value # "nonstr"
Cleaned == SelectSeq(api.req.body.text, LAMBDA c : c # Junk)
ValidArg ==
    /\ Len(Cleaned) = 1
    /\ Cleaned[1].p.syntax = "ok"
    /\ IF api.req.endpoint = "ip" THEN ~Cleaned[1].slash
       ELSE Cleaned[1].p.len <= Width(Cleaned[1].p.family)

\* C20: a request is answered after the source check, the key check, the
\* content-type check and the validation, in that order: 403 when the source
\* fails, else 401 when the key fails, else 415 when the content type is not
\* JSON, else 400 when the body was read and the address or prefix is invalid.
\* A job is enqueued only for a request that passes all of them; a request
\* answered 400, 401, 403 or 415 (or 413, 500) enqueues nothing, and a request
\* that passes is answered 202 and enqueues exactly one job, for its endpoint
\* and its cleaned string.
C20_EnqueueOnlyAfterChecks ==
    api.pc = "responded" =>
        /\ api.status = 403 <=> ~SourceOk
        /\ api.status = 401 <=> SourceOk /\ ~KeyOk
        /\ api.status = 415 <=> SourceOk /\ KeyOk /\ ~JsonOk
        /\ api.status = 400 <=> SourceOk /\ KeyOk /\ JsonOk /\ BodyRead /\ ~ValidArg
        /\ api.status = 202 <=> SourceOk /\ KeyOk /\ JsonOk /\ BodyRead /\ ValidArg
        /\ api.status \in {202, 400, 401, 403, 413, 415, 500}
        /\ api.queue = IF api.status = 202
                       THEN << [ fn |-> IF api.req.endpoint = "ip" THEN "scan_ip"
                                        ELSE "scan_prefix",
                                 arg |-> Cleaned ] >>
                       ELSE <<>>

C20_Witness ==
    /\ api.pc = "responded"
    /\ api.status = 202
    /\ api.allowed # "" /\ api.req.xff # <<>> /\ api.req.remote # api.allowed
    /\ api.req.endpoint = "prefix"
    /\ Len(api.req.body.text) > Len(Cleaned)
    /\ Len(api.queue) = 1

====
